---- MODULE Spec2Model ----
(***************************************************************************)
(* A model of AreaChartComponent (src/src/app/area-chart/                  *)
(* area-chart.component.ts): its lifecycle (construction, first effect     *)
(* run, mount, teardown), the redraw cycle (updateChart and the render     *)
(* routines), the debounced resize handling and the pointer interaction.   *)
(*                                                                         *)
(* Conventions.                                                            *)
(*  - An optional value (T | null, an optional config field) is a sequence *)
(*    of length 0 or 1.                                                    *)
(*  - A Date is [valid, t]: t is its time in days; valid = FALSE is the    *)
(*    JavaScript "Invalid Date", whose time is NaN.                        *)
(*  - A pixel coordinate is an exact rational [n, d], d > 0, in lowest     *)
(*    terms (floating-point rounding is not modelled).                     *)
(*  - The drawn content of the <svg> is the sequence of the elements       *)
(*    appended to it, in append order; an element is [tag, i], i being the *)
(*    series index of a per-series element and 0 otherwise.  The grid      *)
(*    lines appended by one data join are one entry.                       *)
(*  - Angular semantics (v19+, standalone components by default as in      *)
(*    src/src/app/app.ts): an effect created in a component runs during    *)
(*    change detection, first before afterNextRender's callback; it is     *)
(*    re-run when a signal READ BY ITS LAST RUN changes; an input is set   *)
(*    during change detection, so the effect's re-run follows the input    *)
(*    change within the same tick.                                         *)
(***************************************************************************)
EXTENDS Integers, Sequences, FiniteSets, TLC

\* ------------------------------------------------------------------ bounds

\* The longest dataset supplied to the chart (daily points).
MaxDays == 2

\* Pointer positions are sampled at k / PointerSteps of the plot width.
PointerSteps == 2

\* The latest date (in days) and the most points of a dataset with gaps.
MaxDate == 4

MaxPoints == 3

\* Time spans are s units long, s up to MaxSpanUnits, the unit being a day,
\* a week, a month, a year or ten years.
MaxSpanUnits == 12

\* Plot widths reach up to MaxWidthUnits tick spacings (of 80 pixels).
MaxWidthUnits == 10

\* --------------------------------------------------------------- constants

MIN_DATA_POINTS == 2

\* ------------------------------------------------------------- arithmetic

RECURSIVE GCD(_, _)
GCD(a, b) == IF b = 0 THEN a ELSE GCD(b, a % b)

Abs(x) == IF x < 0 THEN 0 - x ELSE x

\* The rational n / d (d # 0) in lowest terms with a positive denominator.
Rat(n, d) ==
    LET g == GCD(Abs(n), Abs(d))
        s == IF d < 0 THEN 0 - 1 ELSE 1
    IN  [n |-> (s * n) \div g, d |-> (s * d) \div g]

RatInt(k) == [n |-> k, d |-> 1]

RatPlus(r, k) == Rat(r.n + k * r.d, r.d)

RatLess(a, b) == a.n * b.d < b.n * a.d

SetMin(S) == CHOOSE x \in S : \A y \in S : x <= y

SetMax(S) == CHOOSE x \in S : \A y \in S : x >= y

RatMin(S) == CHOOSE x \in S : \A y \in S : ~RatLess(y, x)

\* --------------------------------------------------------------- the data

Date(t) == [valid |-> TRUE, t |-> t]

InvalidDate == [valid |-> FALSE, t |-> 0]

\* The value generateValue draws for day i of a series (one value of its
\* range base +/- variance / 2 per day and series).
generateValue(key, i) ==
    CASE key = "mobile"  -> 300 + 40 * ((3 * i) % 5)
      [] key = "desktop" -> 355 + 60 * ((i + 1) % 3)
      [] OTHER           -> 148000 + 6000 * i

\* days consecutive daily points from day 0 on, ascending by date.  A point
\* carries the series keys of all the sample datasets (mobile, desktop,
\* totalEur), so that each config of Configs finds its keys in it.
generateDailyData(days) ==
    [i \in 1..days |->
        [date     |-> Date(i - 1),
         mobile   |-> generateValue("mobile", i - 1),
         desktop  |-> generateValue("desktop", i - 1),
         totalEur |-> generateValue("totalEur", i - 1)]]

\* A dataset is the value of the data input: null / undefined, or an array.
Dataset(pts) == [isNull |-> FALSE, pts |-> pts]

NullData == [isNull |-> TRUE, pts |-> << >>]

\* Two points none of which has a valid date.
UndatedData ==
    Dataset([i \in 1..2 |-> [generateDailyData(2)[i] EXCEPT !.date = InvalidDate]])

Datasets ==
    {NullData, UndatedData} \cup {Dataset(generateDailyData(n)) : n \in 0..MaxDays}

\* The points of a dataset whose dates are the days dates[1], dates[2], ...
\* (day i of a series has the value generateValue draws for it).
pointsAt(dates) ==
    [i \in 1..Len(dates) |->
        [date     |-> Date(dates[i]),
         mobile   |-> generateValue("mobile", dates[i]),
         desktop  |-> generateValue("desktop", dates[i]),
         totalEur |-> generateValue("totalEur", dates[i])]]

\* The sequences of 2 .. MaxPoints days in ascending order (a day may
\* repeat), from day 0 to day MaxDate.
SortedDates ==
    UNION {{q \in [1..n -> 0..MaxDate] : \A i \in 1..(n - 1) : q[i] <= q[i + 1]} :
              n \in MIN_DATA_POINTS..MaxPoints}

\* The datasets of 2 .. MaxPoints points sorted ascending by date.
SortedDatasets == {Dataset(pointsAt(q)) : q \in SortedDates}

\* ------------------------------------------------------------ the configs

Series(name, color, key) == [name |-> name, color |-> color, key |-> key]

Margin(t, r, b, l) == [top |-> t, right |-> r, bottom |-> b, left |-> l]

DEFAULT_CHART_CONFIG ==
    [series            |-> << Series("Value", "#8B5CF6", "value") >>,
     dateFormat        |-> "%b %d",
     tooltipDateFormat |-> << >>,
     showLegend        |-> TRUE,
     margin            |-> Margin(20, 30, 40, 50),
     yAxisFormat       |-> << >>,
     autoMinY          |-> << >>,
     showCrosshair     |-> << TRUE >>,
     tooltipAnimation  |-> << TRUE >>]

dualSeriesConfig ==
    [series            |-> << Series("Mobile", "#4F46E5", "mobile"),
                              Series("Desktop", "#93C5FD", "desktop") >>,
     dateFormat        |-> "%b %d",
     tooltipDateFormat |-> << >>,
     showLegend        |-> TRUE,
     margin            |-> Margin(20, 30, 40, 50),
     yAxisFormat       |-> << >>,
     autoMinY          |-> << >>,
     showCrosshair     |-> << >>,
     tooltipAnimation  |-> << >>]

netWorthConfig ==
    [series            |-> << Series("Vermogen", "#8B5CF6", "totalEur") >>,
     dateFormat        |-> "%Y",
     tooltipDateFormat |-> << "%B %Y" >>,
     showLegend        |-> FALSE,
     margin            |-> Margin(20, 20, 30, 80),
     yAxisFormat       |-> << "eurFormatter" >>,
     autoMinY          |-> << TRUE >>,
     showCrosshair     |-> << >>,
     tooltipAnimation  |-> << >>]

\* The configs the host passes to its charts (the config input's default,
\* DEFAULT_CHART_CONFIG, is what a chart gets from a host that passes none).
Configs == {dualSeriesConfig, netWorthConfig}

\* ----------------------------------------------------------- the container

\* What getBoundingClientRect() of the chart container returns.
Rect(w, h) == [width |-> w, height |-> h, left |-> 8, top |-> 16]

\* A container with room for the plot, and one lower than the margins.
Rects == {Rect(800, 400), Rect(800, 50)}

\* ---------------------------------------------------------------- scales

\* getValue of renderChart: the numeric value of a series key in a point, and
\* zero when the point has no number under that key.
getValue(d, key) == IF key \in DOMAIN d /\ key # "date" THEN d[key] ELSE 0

seriesKeys(c) == [i \in 1..Len(c.series) |-> c.series[i].key]

\* d3 extent(data, d => d.date): the least and greatest of the comparable
\* (valid) dates, and [undefined, undefined] when there is none.
dateExtent(pts) ==
    LET T == {pts[i].date.t : i \in {j \in 1..Len(pts) : pts[j].date.valid}}
    IN  IF T = {} THEN [defined |-> FALSE, lo |-> 0, hi |-> 0]
        ELSE [defined |-> TRUE, lo |-> SetMin(T), hi |-> SetMax(T)]

\* yMax / yMin of renderChart: over all points, the greatest / least value
\* among the configured series.
yMax(pts, c) ==
    SetMax({getValue(pts[i], seriesKeys(c)[k]) :
                i \in 1..Len(pts), k \in 1..Len(c.series)})

yMin(pts, c) ==
    SetMin({getValue(pts[i], seriesKeys(c)[k]) :
                i \in 1..Len(pts), k \in 1..Len(c.series)})

\* The greatest power of ten that is <= p, for p >= 1.
RECURSIVE magnitude(_, _)
magnitude(p, m) == IF 10 * m <= p THEN magnitude(p, 10 * m) ELSE m

\* The lower bound without Math.max(0, ...).
yAxisMin10NoClamp(pts, c) ==
    IF c.autoMinY = << TRUE >> /\ yMin(pts, c) > 0
    THEN LET range == yMax(pts, c) - yMin(pts, c)
             p10   == 10 * yMin(pts, c) - range
         IN  IF p10 > 0
             THEN (p10 \div magnitude(p10, 1)) * magnitude(p10, 1)
             ELSE p10
    ELSE 0

\* The lower bound of the vertical domain, in tenths (the values are whole
\* numbers, so yMin - range * 0.1 is a whole number of tenths).
yAxisMin10(pts, c) ==
    IF c.autoMinY = << TRUE >> /\ yMin(pts, c) > 0
    THEN LET range == yMax(pts, c) - yMin(pts, c)
             p10   == SetMax({0, 10 * yMin(pts, c) - range})
         IN  IF p10 > 0
             THEN (p10 \div magnitude(p10, 1)) * magnitude(p10, 1)
             ELSE p10
    ELSE 0

\* xScale = scaleTime().domain(dateExtent).range([0, width]) applied to a
\* date; a domain of one instant maps every date to the middle of the range.
xScale(pts, w, date) ==
    LET e == dateExtent(pts)
    IN  IF e.hi = e.lo THEN Rat(w, 2)
        ELSE Rat((date.t - e.lo) * w, e.hi - e.lo)

\* The domain of yScale without the headroom above yMax.
yDomain20NoHeadroom(pts, c) ==
    [lo |-> 2 * yAxisMin10(pts, c), hi |-> 20 * yMax(pts, c)]

\* The domain of yScale, [yAxisMin, yMax * 1.05], in twentieths.
yDomain20(pts, c) ==
    [lo |-> 2 * yAxisMin10(pts, c), hi |-> 21 * yMax(pts, c)]

\* yScale = scaleLinear().domain([yAxisMin, yMax * 1.05]).range([height, 0])
\* applied to a value v: height * (hi - v) / (hi - lo), here times 20 / 20.
yScale(pts, c, h, v) ==
    LET hi20 == yDomain20(pts, c).hi
        lo20 == yDomain20(pts, c).lo
    IN  IF hi20 = lo20 THEN Rat(h, 2)
        ELSE Rat(h * (hi20 - 20 * v), hi20 - lo20)

\* The two scales renderChart creates for this.width = w and this.height = h:
\* their domains and ranges (the vertical domain in twentieths).
scales(pts, c, w, h) ==
    [xDomain   |-> << dateExtent(pts).lo, dateExtent(pts).hi >>,
     xRange    |-> << 0, w >>,
     yDomain20 |-> << yDomain20(pts, c).lo, yDomain20(pts, c).hi >>,
     yRange    |-> << h, 0 >>]

\* ------------------------------------------------------ the render pipeline

El(tag, i) == [tag |-> tag, i |-> i]

NoDataText == El("text: No data available", 0)

ErrorText == El("text: Error rendering chart", 0)

\* renderEmptyState: the element it appends.
renderEmptyState == << NoDataText >>

\* renderErrorState: the element it appends.
renderErrorState == << ErrorText >>

\* setupInteractivity: the hover line, one hover circle per series and the
\* pointer overlay, in this order.
setupInteractivity(c) ==
    << El("hover-line", 0) >>
    \o [i \in 1..Len(c.series) |-> El("hover-circle", i - 1)]
    \o << El("overlay", 0) >>

\* renderChart with the axes appended before the areas and lines.
renderChartAxesFirst(d, c, w, h) ==
    LET defs == << El("defs", 0) >>
                \o [i \in 1..Len(c.series) |-> El("linearGradient", i - 1)]
        g    == << El("g", 0) >>
        grid == << El("grid-lines", 0) >>
        geom == [j \in 1..(2 * Len(c.series)) |->
                    IF j % 2 = 1 THEN El("area", (j - 1) \div 2)
                    ELSE El("line", (j - 1) \div 2)]
        axes == << El("x-axis", 0), El("y-axis", 0) >>
    IN  IF ~dateExtent(d.pts).defined
        THEN [threw |-> TRUE, dom |-> defs \o g]
        ELSE [threw |-> FALSE,
              dom   |-> defs \o g \o grid \o axes \o geom \o setupInteractivity(c)]

\* renderChart: the elements it appends until it returns or throws.
renderChart(d, c, w, h) ==
    LET defs == << El("defs", 0) >>
                \o [i \in 1..Len(c.series) |-> El("linearGradient", i - 1)]
        g    == << El("g", 0) >>
        grid == << El("grid-lines", 0) >>
        geom == [j \in 1..(2 * Len(c.series)) |->
                    IF j % 2 = 1 THEN El("area", (j - 1) \div 2)
                    ELSE El("line", (j - 1) \div 2)]
        axes == << El("x-axis", 0), El("y-axis", 0) >>
    IN  IF ~dateExtent(d.pts).defined
        THEN [threw |-> TRUE, dom |-> defs \o g]
        ELSE [threw |-> FALSE,
              dom   |-> defs \o g \o grid \o geom \o axes \o setupInteractivity(c)]

\* The listeners' closure and the hover elements of a drawn chart: the data,
\* config and (through width and height) the scales captured at draw time,
\* the hover line and the hover circles as appended (hidden).
Interactive(d, c, w, h) ==
    [data    |-> d,
     config  |-> c,
     width   |-> w,
     height  |-> h,
     line    |-> [x |-> RatInt(0), opacity |-> 0],
     circles |-> [i \in 1..Len(c.series) |->
                    [cx |-> RatInt(0), cy |-> RatInt(0), opacity |-> 0]]]

\* The update with the try / catch around renderChart left out.
updateChartNoCatch(dom0, d, c, w, h) ==
    IF d.isNull \/ Len(d.pts) < MIN_DATA_POINTS
    THEN [dom |-> renderEmptyState, interactive |-> << >>,
          outcome |-> "empty", uncaught |-> FALSE]
    ELSE IF w <= 0 \/ h <= 0
    THEN [dom |-> << >>, interactive |-> << >>,
          outcome |-> "blank", uncaught |-> FALSE]
    ELSE LET r == renderChart(d, c, w, h)
         IN  IF r.threw
             THEN [dom |-> r.dom, interactive |-> << >>,
                   outcome |-> "error", uncaught |-> TRUE]
             ELSE [dom |-> r.dom, interactive |-> << Interactive(d, c, w, h) >>,
                   outcome |-> "chart", uncaught |-> FALSE]

\* The update with svg.selectAll('*').remove() left out.
updateChartNoClear(dom0, d, c, w, h) ==
    IF d.isNull \/ Len(d.pts) < MIN_DATA_POINTS
    THEN [dom |-> dom0 \o renderEmptyState, interactive |-> << >>,
          outcome |-> "empty", uncaught |-> FALSE]
    ELSE IF w <= 0 \/ h <= 0
    THEN [dom |-> dom0, interactive |-> << >>,
          outcome |-> "blank", uncaught |-> FALSE]
    ELSE LET r == renderChart(d, c, w, h)
         IN  IF r.threw
             THEN [dom |-> dom0 \o r.dom \o renderErrorState, interactive |-> << >>,
                   outcome |-> "error", uncaught |-> FALSE]
             ELSE [dom |-> dom0 \o r.dom,
                   interactive |-> << Interactive(d, c, w, h) >>,
                   outcome |-> "chart", uncaught |-> FALSE]

\* The update with the guard on the dimensions left out.
updateChartNoDimGuard(dom0, d, c, w, h) ==
    IF d.isNull \/ Len(d.pts) < MIN_DATA_POINTS
    THEN [dom |-> renderEmptyState, interactive |-> << >>,
          outcome |-> "empty", uncaught |-> FALSE]
    ELSE LET r == renderChart(d, c, w, h)
         IN  IF r.threw
             THEN [dom |-> r.dom \o renderErrorState, interactive |-> << >>,
                   outcome |-> "error", uncaught |-> FALSE]
             ELSE [dom |-> r.dom, interactive |-> << Interactive(d, c, w, h) >>,
                   outcome |-> "chart", uncaught |-> FALSE]

\* The update with the guard on the point count left out.
updateChartNoDataGuard(dom0, d, c, w, h) ==
    IF w <= 0 \/ h <= 0
    THEN [dom |-> << >>, interactive |-> << >>,
          outcome |-> "blank", uncaught |-> FALSE]
    ELSE LET r == renderChart(d, c, w, h)
         IN  IF r.threw
             THEN [dom |-> r.dom \o renderErrorState, interactive |-> << >>,
                   outcome |-> "error", uncaught |-> FALSE]
             ELSE [dom |-> r.dom, interactive |-> << Interactive(d, c, w, h) >>,
                   outcome |-> "chart", uncaught |-> FALSE]

\* updateChart on an existing svg whose children are dom0: what is drawn
\* afterwards, the interactive part of it, which branch was taken, and
\* whether an exception left the update.
updateChart(dom0, d, c, w, h) ==
    LET cleared == << >>   \* svg.selectAll('*').remove() empties dom0
    IN  IF d.isNull \/ Len(d.pts) < MIN_DATA_POINTS
        THEN [dom |-> cleared \o renderEmptyState, interactive |-> << >>,
              outcome |-> "empty", uncaught |-> FALSE]
        ELSE IF w <= 0 \/ h <= 0
        THEN [dom |-> cleared, interactive |-> << >>,
              outcome |-> "blank", uncaught |-> FALSE]
        ELSE LET r == renderChart(d, c, w, h)
             IN  IF r.threw
                 THEN [dom |-> cleared \o r.dom \o renderErrorState,
                       interactive |-> << >>,
                       outcome |-> "error", uncaught |-> FALSE]
                 ELSE [dom |-> cleared \o r.dom,
                       interactive |-> << Interactive(d, c, w, h) >>,
                       outcome |-> "chart", uncaught |-> FALSE]

\* ------------------------------------------------------ pointer interaction

\* bisector(d => d.date).left(data, x0, lo, hi) for the date x0 = xn / xd,
\* on 0-based indices: the first index in lo..hi whose date is not < x0.
RECURSIVE dateBisector(_, _, _, _, _)
dateBisector(pts, xn, xd, lo, hi) ==
    IF lo < hi
    THEN LET mid == (lo + hi) \div 2
             dm  == pts[mid + 1].date
         IN  IF dm.valid /\ dm.t * xd < xn
             THEN dateBisector(pts, xn, xd, mid + 1, hi)
             ELSE dateBisector(pts, xn, xd, lo, mid)
    ELSE lo

\* The choice with >= in place of >: a tie goes to the later point.
nearestPointTieLater(pts, xn, xd) ==
    LET i     == dateBisector(pts, xn, xd, 1, Len(pts))
        hasD0 == i - 1 >= 0 /\ i - 1 < Len(pts)
        hasD1 == i < Len(pts)
    IN  IF ~hasD0 /\ ~hasD1 THEN << >>
        ELSE IF ~hasD0 THEN << pts[i + 1] >>
        ELSE IF ~hasD1 THEN << pts[i] >>
        ELSE IF pts[i].date.valid /\ pts[i + 1].date.valid
                /\ xn - pts[i].date.t * xd >= pts[i + 1].date.t * xd - xn
             THEN << pts[i + 1] >>
             ELSE << pts[i] >>

\* The point handleMouseMove chooses for the pointer date x0 = xn / xd: none
\* (an empty sequence) when there is neither d0 nor d1.
nearestPoint(pts, xn, xd) ==
    LET i     == dateBisector(pts, xn, xd, 1, Len(pts))
        hasD0 == i - 1 >= 0 /\ i - 1 < Len(pts)
        hasD1 == i < Len(pts)
    IN  IF ~hasD0 /\ ~hasD1 THEN << >>
        ELSE IF ~hasD0 THEN << pts[i + 1] >>
        ELSE IF ~hasD1 THEN << pts[i] >>
        ELSE IF pts[i].date.valid /\ pts[i + 1].date.valid
                /\ xn - pts[i].date.t * xd > pts[i + 1].date.t * xd - xn
             THEN << pts[i + 1] >>
             ELSE << pts[i] >>

\* handleMouseMove that leaves the margins out of the tooltip position.
handleMouseMoveNoMargin(cl, k, w, r, st) ==
    LET pts  == cl.data.pts
        e    == dateExtent(pts)
        xn   == PointerSteps * e.lo + k * (e.hi - e.lo)
        xd   == PointerSteps
        near == nearestPoint(pts, xn, xd)
    IN  IF near = << >> THEN st
        ELSE LET d    == near[1]
                 xPos == xScale(pts, cl.width, d.date)
                 ys   == [i \in 1..Len(cl.config.series) |->
                            yScale(pts, cl.config, cl.height,
                                   getValue(d, cl.config.series[i].key))]
                 minY == RatMin({ys[i] : i \in 1..Len(ys)})
             IN  [hoveredData     |-> << d >>,
                  tooltipOnLeft   |-> RatLess(Rat(w, 2), xPos),
                  tooltipPosition |->
                      [x |-> RatPlus(xPos, r.left), y |-> RatPlus(minY, r.top)],
                  line            |-> [x |-> xPos, opacity |-> 1],
                  circles         |-> [i \in 1..Len(ys) |->
                                         [cx |-> xPos, cy |-> ys[i], opacity |-> 1]]]

\* handleMouseMove that moves the hover circles without showing them.
handleMouseMoveHiddenCircles(cl, k, w, r, st) ==
    LET pts  == cl.data.pts
        e    == dateExtent(pts)
        xn   == PointerSteps * e.lo + k * (e.hi - e.lo)
        xd   == PointerSteps
        near == nearestPoint(pts, xn, xd)
    IN  IF near = << >> THEN st
        ELSE LET d    == near[1]
                 xPos == xScale(pts, cl.width, d.date)
                 ys   == [i \in 1..Len(cl.config.series) |->
                            yScale(pts, cl.config, cl.height,
                                   getValue(d, cl.config.series[i].key))]
                 minY == RatMin({ys[i] : i \in 1..Len(ys)})
             IN  [hoveredData     |-> << d >>,
                  tooltipOnLeft   |-> RatLess(Rat(w, 2), xPos),
                  tooltipPosition |->
                      [x |-> RatPlus(xPos, cl.config.margin.left + r.left),
                       y |-> RatPlus(minY, cl.config.margin.top + r.top)],
                  line            |-> [x |-> xPos, opacity |-> 1],
                  circles         |-> [i \in 1..Len(ys) |->
                                         [cx |-> xPos, cy |-> ys[i], opacity |-> 0]]]

\* handleMouseMove with the pointer at k / PointerSteps of the overlay's
\* width: the interaction state and the hover elements afterwards.  cl is
\* the closure of the drawn chart, w the component's current width, r the
\* container's current rectangle, st the interaction state before.
handleMouseMove(cl, k, w, r, st) ==
    LET pts  == cl.data.pts
        e    == dateExtent(pts)
        \* x0 = xScale.invert(mouseX) = lo + (k / PointerSteps) * (hi - lo)
        xn   == PointerSteps * e.lo + k * (e.hi - e.lo)
        xd   == PointerSteps
        near == nearestPoint(pts, xn, xd)
    IN  IF near = << >> THEN st
        ELSE LET d    == near[1]
                 xPos == xScale(pts, cl.width, d.date)
                 ys   == [i \in 1..Len(cl.config.series) |->
                            yScale(pts, cl.config, cl.height,
                                   getValue(d, cl.config.series[i].key))]
                 minY == RatMin({ys[i] : i \in 1..Len(ys)})
             IN  [hoveredData     |-> << d >>,
                  tooltipOnLeft   |-> RatLess(Rat(w, 2), xPos),
                  tooltipPosition |->
                      [x |-> RatPlus(xPos, cl.config.margin.left + r.left),
                       y |-> RatPlus(minY, cl.config.margin.top + r.top)],
                  line            |-> [x |-> xPos, opacity |-> 1],
                  circles         |-> [i \in 1..Len(ys) |->
                                         [cx |-> xPos, cy |-> ys[i], opacity |-> 1]]]

\* ------------------------------------------------------ the axis tick planner

\* One entry of the table of getOptimalTimeInterval: threshold is the most
\* days of a span the entry is considered for (none: Infinity), and
\* ticksNum / ticksDen its ticksPerUnit.
Entry(threshold, interval, format, ticksNum, ticksDen) ==
    [threshold |-> threshold, interval |-> interval, format |-> format,
     ticksNum |-> ticksNum, ticksDen |-> ticksDen]

\* The table intervals of getOptimalTimeInterval for a span of days days
\* (months = days / 30, years = days / 365).
intervals(days) ==
    << Entry(<< 2 >>,   "timeHour.every(4)",  "%H:%M", 6,    1),
       Entry(<< 7 >>,   "timeDay.every(1)",   "%b %d", days, 1),
       Entry(<< 14 >>,  "timeDay.every(2)",   "%b %d", days, 2),
       Entry(<< 30 >>,  "timeWeek.every(1)",  "%b %d", days, 7),
       Entry(<< 90 >>,  "timeWeek.every(2)",  "%b %d", days, 14),
       Entry(<< 180 >>, "timeMonth.every(1)", "%b",    days, 30),
       Entry(<< 365 >>, "timeMonth.every(2)", "%b",    days, 60),
       Entry(<< 730 >>, "timeMonth.every(3)", "%b %Y", days, 90),
       Entry(<< >>,     "timeYear.every(1)",  "%Y",    days, 365),
       Entry(<< >>,     "timeYear.every(2)",  "%Y",    days, 730),
       Entry(<< >>,     "timeYear.every(5)",  "%Y",    days, 1825),
       Entry(<< >>,     "timeYear.every(10)", "%Y",    days, 3650) >>

\* The loop's condition: days <= threshold && ticksPerUnit <= maxTicks.
fits(e, days, maxTicks) ==
    /\ e.threshold = << >> \/ days <= e.threshold[1]
    /\ e.ticksNum <= maxTicks * e.ticksDen

\* The planner without the test of the threshold.
getOptimalTimeIntervalNoThreshold(days, maxTicks) ==
    LET t == intervals(days)
        Q == {i \in 1..Len(t) : t[i].ticksNum <= maxTicks * t[i].ticksDen}
        e == IF Q # {} THEN t[SetMin(Q)] ELSE t[Len(t)]
    IN  [interval |-> e.interval, format |-> e.format]

\* The planner without the test of the tick count.
getOptimalTimeIntervalNoCount(days, maxTicks) ==
    LET t == intervals(days)
        Q == {i \in 1..Len(t) : t[i].threshold = << >> \/ days <= t[i].threshold[1]}
        e == IF Q # {} THEN t[SetMin(Q)] ELSE t[Len(t)]
    IN  [interval |-> e.interval, format |-> e.format]

\* The planner with the first entry as its fallback.
getOptimalTimeIntervalFallbackFirst(days, maxTicks) ==
    LET t == intervals(days)
        Q == {i \in 1..Len(t) : fits(t[i], days, maxTicks)}
        e == IF Q # {} THEN t[SetMin(Q)] ELSE t[1]
    IN  [interval |-> e.interval, format |-> e.format]

\* getOptimalTimeInterval for a time range of days days (the model's dates
\* count days, so timeRangeMs / (1000 * 60 * 60 * 24) is days): the first
\* entry of the table that fits, and the last entry when none does.
getOptimalTimeInterval(days, maxTicks) ==
    LET t == intervals(days)
        Q == {i \in 1..Len(t) : fits(t[i], days, maxTicks)}
        e == IF Q # {} THEN t[SetMin(Q)] ELSE t[Len(t)]
    IN  [interval |-> e.interval, format |-> e.format]

\* createResponsiveXAxis for the data pts and this.width = w: the interval
\* and the format of the ticks of the horizontal axis.
createResponsiveXAxis(pts, w) ==
    LET e        == dateExtent(pts)
        maxTicks == SetMax({2, w \div 80})
    IN  getOptimalTimeInterval(e.hi - e.lo, maxTicks)

\* ------------------------------------------------------- the range filter

\* The first year of the net worth data; day 0 of the model's dates is its
\* January 1.
startYear == 2020

\* The last year of the net worth data, which has 11 months of it.
endYear == 2025

isLeapYear(y) == (y % 4 = 0 /\ y % 100 # 0) \/ y % 400 = 0

\* The days of month m (0 .. 11) of year y.
daysInMonth(y, m) ==
    IF m = 1 THEN (IF isLeapYear(y) THEN 29 ELSE 28)
    ELSE IF m \in {3, 5, 8, 10} THEN 30
    ELSE 31

\* The days from January 1 of startYear to January 1 of year y >= startYear.
RECURSIVE daysBeforeYear(_)
daysBeforeYear(y) ==
    IF y <= startYear THEN 0
    ELSE daysBeforeYear(y - 1) + (IF isLeapYear(y - 1) THEN 366 ELSE 365)

\* The days of year y before its month m.
RECURSIVE daysBeforeMonth(_, _)
daysBeforeMonth(y, m) ==
    IF m = 0 THEN 0 ELSE daysBeforeMonth(y, m - 1) + daysInMonth(y, m - 1)

\* new Date(year, monthIndex, day), at midnight: a day past the end of the
\* month counts on into the next month.
newDate(y, m, d) == Date(daysBeforeYear(y) + daysBeforeMonth(y, m) + d - 1)

\* Date.prototype.getFullYear, getMonth and getDate.
getFullYear(date) ==
    CHOOSE y \in startYear..(startYear + 10) :
        daysBeforeYear(y) <= date.t /\ date.t < daysBeforeYear(y + 1)

getMonth(date) ==
    LET y == getFullYear(date)
        t == date.t - daysBeforeYear(y)
    IN  CHOOSE m \in 0..11 :
            daysBeforeMonth(y, m) <= t /\ t < daysBeforeMonth(y, m) + daysInMonth(y, m)

getDate(date) ==
    LET y == getFullYear(date)
    IN  date.t - daysBeforeYear(y) - daysBeforeMonth(y, getMonth(date)) + 1

\* generateNetWorthData: a point on the first of every month from startYear
\* to November of endYear (the value is one of those it may draw).
generateNetWorthData ==
    [i \in 1..(12 * (endYear - startYear) + 11) |->
        [date     |-> newDate(startYear + (i - 1) \div 12, (i - 1) % 12, 1),
         totalEur |-> 50000 + 1500 * i]]

TimeRanges == {"ALL", "2Y", "1Y", "YTD"}

\* The filter with > in place of >=.
filterDataByRangeStrict(pts, range, now) ==
    IF range \notin {"2Y", "1Y", "YTD"} THEN pts
    ELSE LET startDate ==
                 CASE range = "2Y" ->
                        newDate(getFullYear(now) - 2, getMonth(now), getDate(now))
                   [] range = "1Y" ->
                        newDate(getFullYear(now) - 1, getMonth(now), getDate(now))
                   [] OTHER -> newDate(getFullYear(now), 0, 1)
             keep(p) == p.date.valid /\ p.date.t > startDate.t
         IN  SelectSeq(pts, keep)

\* The filter with the years of 2Y and 1Y exchanged.
filterDataByRangeSwapped(pts, range, now) ==
    IF range \notin {"2Y", "1Y", "YTD"} THEN pts
    ELSE LET startDate ==
                 CASE range = "2Y" ->
                        newDate(getFullYear(now) - 1, getMonth(now), getDate(now))
                   [] range = "1Y" ->
                        newDate(getFullYear(now) - 2, getMonth(now), getDate(now))
                   [] OTHER -> newDate(getFullYear(now), 0, 1)
             keep(p) == p.date.valid /\ p.date.t >= startDate.t
         IN  SelectSeq(pts, keep)

\* filterDataByRange, now being the value of new Date() (the model's dates
\* count whole days: the time of day is not modelled).
filterDataByRange(pts, range, now) ==
    IF range \notin {"2Y", "1Y", "YTD"} THEN pts
    ELSE LET startDate ==
                 CASE range = "2Y" ->
                        newDate(getFullYear(now) - 2, getMonth(now), getDate(now))
                   [] range = "1Y" ->
                        newDate(getFullYear(now) - 1, getMonth(now), getDate(now))
                   [] OTHER -> newDate(getFullYear(now), 0, 1)
             keep(p) == p.date.valid /\ p.date.t >= startDate.t
         IN  SelectSeq(pts, keep)

\* ---------------------------------------------------------------- the state

VARIABLES
    data,                \* the data input
    config,              \* the config input
    rect,                \* the container's bounding rectangle
    phase,               \* "constructed", "stable", "mounted" or "destroyed"
    effectDeps,          \* the signals the effect's last run has read
    svg,                 \* this.svg: none, or the <svg> with its viewBox
    dom,                 \* the elements drawn in the <svg>
    interactive,         \* none, or the listeners' closure and hover elements
    width,               \* this.width
    height,              \* this.height
    resizeObserver,      \* whether this.resizeObserver is set and observing
    resizeDebounceTimer, \* this.resizeDebounceTimer: none, or a timer handle
    timers,              \* the handles of the timeouts that are pending
    hoveredData,         \* the hoveredData signal: none, or a data point
    tooltipPosition,     \* the tooltipPosition signal
    tooltipOnLeft,       \* the tooltipOnLeft signal
    last,                \* what the last handler run did (history)
    probe                \* a function of the engine, its input and its result

vars ==
    << data, config, rect, phase, effectDeps, svg, dom, interactive, width,
       height, resizeObserver, resizeDebounceTimer, timers, hoveredData,
       tooltipPosition, tooltipOnLeft, last, probe >>

\* The state of the component instance.
componentVars ==
    << data, config, rect, phase, effectDeps, svg, dom, interactive, width,
       height, resizeObserver, resizeDebounceTimer, timers, hoveredData,
       tooltipPosition, tooltipOnLeft, last >>

inputVars == << data, config, rect >>

drawVars == << svg, dom, interactive, width, height >>

timerVars == << resizeObserver, resizeDebounceTimer, timers >>

hoverVars == << hoveredData, tooltipPosition, tooltipOnLeft >>

\* computed(() => this.hoveredData() !== null)
tooltipVisible == hoveredData # << >>

\* timeFormat(format)(date): the text, which the format and the date
\* determine.  A text is the sequence of its parts, '' the empty sequence.
timeFormat(format, date) == << format, date >>

\* The tooltipDate computed signal.
tooltipDate ==
    IF hoveredData = << >> THEN << >>
    ELSE timeFormat(config.dateFormat, hoveredData[1].date)

\* The text of the number val: formatter(val) of the config's yAxisFormat,
\* or format(',.0f')(val) when the config has none.
formatValue(yAxisFormat, val) ==
    << IF yAxisFormat # << >> THEN yAxisFormat[1] ELSE ",.0f", val >>

\* getSeriesValue(key), which the tooltip shows for the series of that key.
getSeriesValue(key) ==
    IF hoveredData = << >> THEN << >>
    ELSE IF key \in DOMAIN hoveredData[1] /\ key # "date"
         THEN formatValue(config.yAxisFormat, hoveredData[1][key])
         ELSE << >>

\* No function is being applied apart from the component's handlers.
NoProbe == [fn |-> "none", in |-> << >>, out |-> << >>]

\* What a handler run did: op names the handler, redrew tells whether
\* updateChart ran past its svg guard, outcome the branch it took,
\* uncaught whether an exception left the handler.  For a run of
\* updateChart, repeat tells whether the handler run before it had run
\* updateChart with the same data, config, width and height, and recovered
\* whether the draw of the handler run before it had failed.
Did(op, redrew, outcome, uncaught) ==
    [op |-> op, redrew |-> redrew, outcome |-> outcome, uncaught |-> uncaught,
     repeat |-> FALSE, recovered |-> FALSE]

\* A handler run that ran updateChart, u being what updateChart returned.
Redrew(op, u) ==
    [op |-> op, redrew |-> TRUE, outcome |-> u.outcome, uncaught |-> u.uncaught,
     repeat    |-> /\ last.redrew
                   /\ data' = data /\ config' = config
                   /\ width' = width /\ height' = height,
     recovered |-> last.outcome = "error"]

\* The instance as its constructor leaves it.
Constructed ==
    /\ phase = "constructed"
    /\ effectDeps = {}
    /\ svg = << >>
    /\ dom = << >>
    /\ interactive = << >>
    /\ width = 0
    /\ height = 0
    /\ resizeObserver = FALSE
    /\ resizeDebounceTimer = << >>
    /\ timers = {}
    /\ hoveredData = << >>
    /\ tooltipPosition = [x |-> RatInt(0), y |-> RatInt(0)]
    /\ tooltipOnLeft = FALSE
    /\ last = [op |-> "construct", redrew |-> FALSE, outcome |-> "none",
               uncaught |-> FALSE, repeat |-> FALSE, recovered |-> FALSE]

Init ==
    /\ data \in Datasets
    /\ config \in Configs
    /\ rect \in Rects
    /\ Constructed
    /\ probe = NoProbe

\* -------------------------------------------------------------- operations

\* The width and height initializeChart and handleResize compute from the
\* container's rectangle and the config's margin.
measure(c, r) ==
    [width  |-> SetMax({0, r.width - c.margin.left - c.margin.right}),
     height |-> SetMax({0, r.height - c.margin.top - c.margin.bottom})]

viewBox(r) == [viewBox |-> << r.width, r.height >>]

\* The effect's first run, in the first change detection: it reads data and,
\* this.svg being null, nothing else.
EffectFirstRun ==
    /\ phase = "constructed"
    /\ phase' = "stable"
    /\ effectDeps' = {"data"}
    /\ last' = Did("effect", FALSE, "none", FALSE)
    /\ UNCHANGED << inputVars, drawVars, timerVars, hoverVars, probe >>

\* afterNextRender's callback: initializeChart, then setupResizeObserver.
Mount ==
    /\ phase = "stable"
    /\ UNCHANGED << inputVars, effectDeps, resizeDebounceTimer, timers, hoverVars,
                    probe >>
    /\ LET m == measure(config, rect)
           u == updateChart(dom, data, config, m.width, m.height)
       IN  /\ width' = m.width
           /\ height' = m.height
           /\ svg' = << viewBox(rect) >>
           /\ dom' = u.dom
           /\ interactive' = u.interactive
           /\ last' = Redrew("mount", u)
    /\ resizeObserver' = TRUE
    /\ phase' = "mounted"

\* The effect's body without updateChart's guard on this.svg.
effectRunNoSvgGuard(op) ==
    LET u == updateChart(dom, data', config', width, height)
    IN  /\ UNCHANGED << svg, width, height >>
        /\ dom' = u.dom
        /\ interactive' = u.interactive
        /\ effectDeps' = {"data", "config"}
        /\ last' = Redrew(op, u)

\* The effect's body, run because the signal named op changed: it reads
\* data and, if this.svg is set, runs updateChart, which reads data and
\* config.
effectRun(op) ==
    IF svg # << >>
    THEN LET u == updateChart(dom, data', config', width, height)
         IN  /\ UNCHANGED << svg, width, height >>
             /\ dom' = u.dom
             /\ interactive' = u.interactive
             /\ effectDeps' = {"data", "config"}
             /\ last' = Redrew(op, u)
    ELSE /\ effectDeps' = {"data"}
         /\ last' = Did(op, FALSE, "none", FALSE)
         /\ UNCHANGED drawVars

\* The host sets the data input to d (an array is a new array each time,
\* also when its content is the same).
SetData(d) ==
    /\ phase # "destroyed"
    /\ data' = d
    /\ UNCHANGED << config, rect, phase, timerVars, hoverVars, probe >>
    /\ IF "data" \in effectDeps
       THEN effectRun("data")
       ELSE /\ last' = Did("data", FALSE, "none", FALSE)
            /\ UNCHANGED << effectDeps, drawVars >>

\* The host sets the config input to c (a new object each time, also when
\* its content is the same).
SetConfig(c) ==
    /\ phase # "destroyed"
    /\ config' = c
    /\ UNCHANGED << data, rect, phase, timerVars, hoverVars, probe >>
    /\ IF "config" \in effectDeps
       THEN effectRun("config")
       ELSE /\ last' = Did("config", FALSE, "none", FALSE)
            /\ UNCHANGED << effectDeps, drawVars >>

\* The least handle that names no pending timeout and is not the one held.
newTimer ==
    SetMin((1..(Cardinality(timers) + 2))
           \ (timers \cup {resizeDebounceTimer[i] : i \in 1..Len(resizeDebounceTimer)}))

\* The ResizeObserver callback without its clearTimeout.
resizeCallbackNoClear ==
    /\ timers' = timers \cup {newTimer}
    /\ resizeDebounceTimer' = << newTimer >>

\* The ResizeObserver callback: clear the timeout held, if any, and set a
\* new one for handleResize.
resizeCallback ==
    /\ timers' = (IF resizeDebounceTimer # << >>
                  THEN timers \ {resizeDebounceTimer[1]}
                  ELSE timers) \cup {newTimer}
    /\ resizeDebounceTimer' = << newTimer >>

\* The container takes the rectangle r (also the one it has: the observer
\* reports once when the observation starts); an observing ResizeObserver
\* runs its callback.
ContainerResized(r) ==
    /\ rect' = r
    /\ IF resizeObserver
       THEN /\ resizeCallback
            /\ last' = Did("resize", FALSE,
                           IF timers = {} THEN "scheduled" ELSE "rescheduled",
                           FALSE)
       ELSE /\ last' = Did("layout", FALSE, "none", FALSE)
            /\ UNCHANGED << resizeDebounceTimer, timers >>
    /\ UNCHANGED << data, config, phase, effectDeps, drawVars, resizeObserver,
                    hoverVars, probe >>

\* handleResize, run by the timeout.
handleResize ==
    IF svg = << >>
    THEN /\ last' = Did("timer", FALSE, "none", FALSE)
         /\ UNCHANGED drawVars
    ELSE LET m == measure(config, rect)
             u == updateChart(dom, data, config, m.width, m.height)
         IN  /\ width' = m.width
             /\ height' = m.height
             /\ svg' = << viewBox(rect) >>
             /\ dom' = u.dom
             /\ interactive' = u.interactive
             /\ last' = Redrew("timer", u)

\* A pending timeout expires.
TimerFire ==
    /\ \E t \in timers : timers' = timers \ {t}
    /\ UNCHANGED << inputVars, phase, effectDeps, resizeObserver,
                    resizeDebounceTimer, hoverVars, probe >>
    /\ handleResize

\* The overlay's mousemove listener, the pointer at k / PointerSteps of the
\* overlay's width.  The overlay exists while a chart is drawn.
MouseMove(k) ==
    /\ interactive # << >>
    /\ LET st == [hoveredData     |-> hoveredData,
                  tooltipOnLeft   |-> tooltipOnLeft,
                  tooltipPosition |-> tooltipPosition,
                  line            |-> interactive[1].line,
                  circles         |-> interactive[1].circles]
           n  == handleMouseMove(interactive[1], k, width, rect, st)
       IN  /\ hoveredData' = n.hoveredData
           /\ tooltipOnLeft' = n.tooltipOnLeft
           /\ tooltipPosition' = n.tooltipPosition
           /\ interactive' = << [interactive[1] EXCEPT !.line = n.line,
                                                       !.circles = n.circles] >>
    /\ last' = Did("move", FALSE, "none", FALSE)
    /\ UNCHANGED << inputVars, phase, effectDeps, svg, dom, width, height,
                    timerVars, probe >>

\* The overlay's mouseleave listener.
MouseLeave ==
    /\ interactive # << >>
    /\ interactive' =
          << [interactive[1] EXCEPT
                !.line.opacity = 0,
                !.circles = [i \in DOMAIN @ |-> [@[i] EXCEPT !.opacity = 0]]] >>
    /\ hoveredData' = << >>
    /\ last' = Did("leave", FALSE, "none", FALSE)
    /\ UNCHANGED << inputVars, phase, effectDeps, svg, dom, width, height,
                    timerVars, tooltipPosition, tooltipOnLeft, probe >>

\* cleanup without its clearTimeout.
cleanupKeepsTimer ==
    /\ timers' = timers
    /\ resizeDebounceTimer' = resizeDebounceTimer
    /\ resizeObserver' = FALSE
    /\ svg' = << >>
    /\ dom' = << >>
    /\ interactive' = << >>

\* cleanup: clear the timeout held, disconnect the observer, remove the
\* drawn elements and drop the svg.
cleanup ==
    /\ timers' = (IF resizeDebounceTimer # << >>
                  THEN timers \ {resizeDebounceTimer[1]}
                  ELSE timers)
    /\ resizeDebounceTimer' = << >>
    /\ resizeObserver' = FALSE
    /\ svg' = << >>
    /\ dom' = << >>
    /\ interactive' = << >>

\* The component is destroyed: the onDestroy callback runs cleanup; the
\* framework destroys the effect and drops a pending afterNextRender.
Destroy ==
    /\ phase # "destroyed"
    /\ phase' = "destroyed"
    /\ effectDeps' = {}
    /\ cleanup
    /\ last' = Did("destroy", FALSE, "none", FALSE)
    /\ UNCHANGED << inputVars, width, height, hoverVars, probe >>

Next ==
    \/ EffectFirstRun
    \/ Mount
    \/ \E d \in Datasets : SetData(d)
    \/ \E c \in Configs : SetConfig(c)
    \/ \E r \in Rects : ContainerResized(r)
    \/ TimerFire
    \/ \E k \in 0..PointerSteps : MouseMove(k)
    \/ MouseLeave
    \/ Destroy

Spec == Init /\ [][Next]_vars

\* ------------------------------------------------- hovering a mounted chart

\* A config that switches the crosshair off, and the host's configs.
noCrosshairConfig == [dualSeriesConfig EXCEPT !.showCrosshair = << FALSE >>]

HoverConfigs == Configs \cup {noCrosshairConfig}

\* Three daily points, the middle one of which has no desktop value.
SparseData ==
    Dataset([i \in 1..3 |->
                IF i = 2
                THEN [date     |-> Date(1),
                      mobile   |-> generateValue("mobile", 1),
                      totalEur |-> generateValue("totalEur", 1)]
                ELSE pointsAt(<< 0, 1, 2 >>)[i]])

HoverDatasets == SortedDatasets \cup {SparseData}

\* The instance as Mount leaves it, with a dataset sorted by date and room
\* for the plot.
HoverInit ==
    /\ data \in HoverDatasets
    /\ config \in HoverConfigs
    /\ rect = Rect(800, 400)
    /\ phase = "mounted"
    /\ effectDeps = {"data"}
    /\ LET m == measure(config, rect)
           u == updateChart(<< >>, data, config, m.width, m.height)
       IN  /\ width = m.width
           /\ height = m.height
           /\ svg = << viewBox(rect) >>
           /\ dom = u.dom
           /\ interactive = u.interactive
           /\ last = [op |-> "mount", redrew |-> TRUE, outcome |-> u.outcome,
                      uncaught |-> u.uncaught, repeat |-> FALSE,
                      recovered |-> FALSE]
    /\ resizeObserver = TRUE
    /\ resizeDebounceTimer = << >>
    /\ timers = {}
    /\ hoveredData = << >>
    /\ tooltipPosition = [x |-> RatInt(0), y |-> RatInt(0)]
    /\ tooltipOnLeft = FALSE
    /\ probe = NoProbe

HoverNext ==
    \/ \E k \in 0..PointerSteps : MouseMove(k)
    \/ MouseLeave

HoverSpec == HoverInit /\ [][HoverNext]_vars

\* ------------------------------------------- the functions of the engine

\* The points of a dataset of consecutive days whose values are vs[i][1]
\* (under mobile and totalEur) and vs[i][2] (under desktop).
valuePoints(vs) ==
    [i \in 1..Len(vs) |->
        [date     |-> Date(i - 1),
         mobile   |-> vs[i][1],
         desktop  |-> vs[i][2],
         totalEur |-> vs[i][1]]]

\* Values of a series: a debt, nothing, small amounts and large ones.
Values == {0 - 50, 0, 5, 12, 270000, 300000}

\* Configs with autoMinY on, off and unset, for one series and for two.
ScaleConfigs ==
    {netWorthConfig, [netWorthConfig EXCEPT !.autoMinY = << FALSE >>],
     dualSeriesConfig, [dualSeriesConfig EXCEPT !.autoMinY = << TRUE >>]}

\* A query date xn / 2 from a day before day 0 to a day after day MaxDate,
\* on a dataset sorted by date.
LookupProbes ==
    {[fn |-> "nearestPoint", in |-> [pts |-> d.pts, xn |-> xn, xd |-> 2],
      out |-> << >>] : d \in SortedDatasets, xn \in (0 - 2)..(2 * MaxDate + 2)}

\* The spans of s days, weeks, months, years and decades.
Spans ==
    {s * u : s \in 0..MaxSpanUnits, u \in {1, 7, 30, 365, 3650}}

\* A dataset spanning a time in Spans, in a plot whose width (positive, as
\* updateChart's guard requires) is one pixel short of a whole number of
\* tick spacings, or a whole number of them, up to MaxWidthUnits.
TickProbes ==
    {[fn |-> "createResponsiveXAxis",
      in |-> [pts |-> pointsAt(<< 0, span >>), w |-> 80 * k - r],
      out |-> << >>] : span \in Spans, k \in 1..MaxWidthUnits, r \in {0, 1}}

\* A dataset sorted by date, or one of given values, under a config.
ScaleProbes ==
    {[fn |-> "scales", in |-> [pts |-> d.pts, c |-> c, w |-> 720, h |-> 340],
      out |-> << >>] : d \in SortedDatasets, c \in ScaleConfigs}
    \cup
    {[fn |-> "scales",
      in |-> [pts |-> valuePoints(<< << a, b >>, << a2, b2 >> >>), c |-> c,
              w |-> 720, h |-> 340],
      out |-> << >>] : a \in Values, b \in Values, a2 \in Values,
                      b2 \in Values, c \in ScaleConfigs}

\* The values of new Date() tried: the first, the middle and the last days
\* of some months of the last two years of the data, February 29 included.
Todays ==
    {newDate(y, m, d) : y \in (endYear - 1)..endYear, m \in {0, 1, 2, 5, 11},
                        d \in {1, 15, 29, 31}}

\* The net worth data, and its runs of up to MaxPoints points.
NetWorthDatasets ==
    {generateNetWorthData}
    \cup {SubSeq(generateNetWorthData, a, a + n - 1) :
             a \in 1..(Len(generateNetWorthData) - MaxPoints), n \in 0..MaxPoints}

\* The host's net worth data and the day on which a range is selected.
FilterProbes ==
    {[fn |-> "filterDataByRange", in |-> [pts |-> pts, now |-> now],
      out |-> << >>] : pts \in NetWorthDatasets, now \in Todays}

CalcInit ==
    /\ data = NullData
    /\ config = DEFAULT_CHART_CONFIG
    /\ rect = Rect(800, 400)
    /\ Constructed
    /\ \/ probe \in LookupProbes
       \/ probe \in TickProbes
       \/ probe \in ScaleProbes
       \/ probe \in FilterProbes

\* handleMouseMove's choice of the point for the pointer date.
ApplyNearestPoint ==
    /\ probe.fn = "nearestPoint" /\ probe.out = << >>
    /\ probe' = [probe EXCEPT
                    !.out = << nearestPoint(probe.in.pts, probe.in.xn, probe.in.xd) >>]
    /\ UNCHANGED componentVars

\* renderChart's call of createResponsiveXAxis.
ApplyCreateResponsiveXAxis ==
    /\ probe.fn = "createResponsiveXAxis" /\ probe.out = << >>
    /\ probe' = [probe EXCEPT
                    !.out = << createResponsiveXAxis(probe.in.pts, probe.in.w) >>]
    /\ UNCHANGED componentVars

\* renderChart's creation of the scales.
ApplyScales ==
    /\ probe.fn = "scales" /\ probe.out = << >>
    /\ probe' = [probe EXCEPT
                    !.out = << scales(probe.in.pts, probe.in.c,
                                      probe.in.w, probe.in.h) >>]
    /\ UNCHANGED componentVars

\* onNetWorthRangeChange(range) and the netWorthData computed that follows
\* it: the range selected and the filtered data.
SelectRange(range) ==
    /\ probe.fn = "filterDataByRange"
    /\ probe' = [probe EXCEPT
                    !.out = << [range |-> range,
                                data  |-> filterDataByRange(probe.in.pts, range,
                                                            probe.in.now)] >>]
    /\ UNCHANGED componentVars

CalcNext ==
    \/ ApplyNearestPoint
    \/ ApplyCreateResponsiveXAxis
    \/ ApplyScales
    \/ \E range \in TimeRanges : SelectRange(range)

CalcSpec == CalcInit /\ [][CalcNext]_vars

\* ------------------------------------------------------------------ claims

\* Fewer than MIN_DATA_POINTS points, an absent dataset included.
Short(d) == d.isNull \/ Len(d.pts) < MIN_DATA_POINTS

\* The container, less the config's margins, has no room for a plot.
NoRoom(c, r) ==
    \/ r.width - c.margin.left - c.margin.right <= 0
    \/ r.height - c.margin.top - c.margin.bottom <= 0

Drawn(tag) == \E i \in 1..Len(dom) : dom[i].tag = tag

\* The elements of a completely drawn chart for the current inputs.
ChartElements == renderChart(data, config, width, height).dom

\* C1: once the chart is mounted, every change of the data input and every
\* change of the config input runs the redraw cycle, a config change that
\* precedes every data change since mount included.
C1_EveryInputChangeRedraws ==
    (phase = "mounted" /\ last.op \in {"data", "config"}) => last.redrew

\* C2: in every state reached by a pointer-leave or by a redraw that a data
\* or config change caused, the hovered point is none and the tooltip is
\* not visible.
C2_UpdateOrLeaveClearsHover ==
    (last.op = "leave" \/ (last.op \in {"data", "config"} /\ last.redrew))
        => (hoveredData = << >> /\ ~tooltipVisible)

\* C3: after teardown no timeout is pending, the observer is disconnected,
\* nothing is drawn and no listener is left, and no later step redraws or
\* changes the drawing or the interaction state.
C3_TeardownIsFinal ==
    [][phase = "destroyed" =>
          /\ timers = {}
          /\ ~resizeObserver
          /\ svg = << >> /\ dom = << >> /\ interactive = << >>
          /\ phase' = "destroyed"
          /\ ~last'.redrew
          /\ UNCHANGED << drawVars, timerVars, hoverVars >>]_vars

\* C3's case: the container changes after the teardown of a chart that had
\* been mounted with room for a plot and was being hovered.
C3_Witness ==
    /\ phase = "destroyed"
    /\ last.op = "layout"
    /\ width > 0
    /\ hoveredData # << >>

\* C4: at most one resize timeout is pending, and it is the one held; a
\* notification leaves exactly one pending timeout, which is a new one (the
\* one pending before is cancelled); handleResize runs only on the expiry
\* of that timeout, once, and leaves none pending - so a burst of
\* notifications without an expiry in between is handled exactly once,
\* after its last notification.
C4_DebounceOneHandlingPerBurst ==
    [][/\ Cardinality(timers') <= 1
       /\ timers' \subseteq {resizeDebounceTimer'[i] :
                                i \in 1..Len(resizeDebounceTimer')}
       /\ last'.op = "resize" =>
             (Cardinality(timers') = 1 /\ timers' \cap timers = {})
       /\ last'.redrew /\ last'.op = "timer" =>
             (Cardinality(timers) = 1 /\ timers' = {})
       /\ last'.op = "timer" => last.op # "timer"]_vars

\* C4's case: a notification has replaced the timeout of an earlier one.
C4_Witness ==
    /\ last.op = "resize"
    /\ last.outcome = "rescheduled"
    /\ Cardinality(timers) = 1

\* C5: a handled resize re-measures the container and redraws, leaves the
\* data unchanged, sets the hovered point to none and alters no other
\* interaction state.
C5_ResizeClearsHoverOnly ==
    [][(last'.op = "timer" /\ last'.redrew) =>
          /\ data' = data
          /\ width' = measure(config, rect).width
          /\ height' = measure(config, rect).height
          /\ hoveredData' = << >>
          /\ UNCHANGED << tooltipPosition, tooltipOnLeft >>]_vars

\* C6 as stated: after every update, a dataset of fewer than 2 points shows
\* exactly the 'no data' placeholder, without an exception; one of 2 or
\* more points in positive dimensions shows the chart and no placeholder.
C6_PlaceholderOrChart ==
    last.redrew =>
        /\ ~last.uncaught
        /\ Short(data) =>
              (dom = << NoDataText >> /\ interactive = << >>)
        /\ (~Short(data) /\ width > 0 /\ height > 0) =>
              (dom = ChartElements /\ Drawn("overlay") /\ interactive # << >>
               /\ NoDataText # dom[Len(dom)] /\ ErrorText # dom[Len(dom)])

\* C6 as amended: the chart is drawn for 2 or more points in positive
\* dimensions when the date extent is defined (some point has a valid date).
C6_PlaceholderOrChartIfDated ==
    last.redrew =>
        /\ ~last.uncaught
        /\ Short(data) =>
              (dom = << NoDataText >> /\ interactive = << >>)
        /\ (~Short(data) /\ width > 0 /\ height > 0
            /\ dateExtent(data.pts).defined) =>
              (dom = ChartElements /\ Drawn("overlay") /\ interactive # << >>
               /\ NoDataText # dom[Len(dom)] /\ ErrorText # dom[Len(dom)])

\* C6's case: an update with an absent dataset, in positive dimensions.
C6_Witness ==
    /\ last.redrew
    /\ data = NullData
    /\ width > 0 /\ height > 0
    /\ dom = << NoDataText >>

\* C7 as stated: a handled resize to a container without room for a plot
\* leaves no drawn element and raises no error, whatever the dataset.
C7_NoRoomDrawsNothing ==
    (last.op = "timer" /\ last.redrew /\ NoRoom(config, rect))
        => (dom = << >> /\ ~last.uncaught)

\* C7 as amended: it raises no error and draws no chart; it leaves no drawn
\* element when the dataset has 2 or more points, and only the 'no data'
\* placeholder when it has fewer.
C7_NoRoomDrawsNoChart ==
    (last.op = "timer" /\ last.redrew /\ NoRoom(config, rect))
        => /\ ~last.uncaught
           /\ interactive = << >>
           /\ (width = 0 \/ height = 0)
           /\ dom = IF Short(data) THEN << NoDataText >> ELSE << >>

\* C7's case: a handled resize without room, the dataset having 2 points.
C7_Witness ==
    /\ last.op = "timer" /\ last.redrew
    /\ NoRoom(config, rect)
    /\ ~Short(data)
    /\ dom = << >>

\* C8: no exception leaves a handler; a failed draw ends with the error
\* placeholder shown and the instance mounted, its svg in place; and an
\* update with drawable data in positive dimensions, run while the error
\* placeholder of a failed draw is shown, draws the complete chart and
\* nothing else.
C8_DrawFailureIsContained ==
    [][/\ ~last'.uncaught
       /\ last'.outcome = "error" =>
             /\ dom'[Len(dom')] = ErrorText
             /\ svg' # << >>
             /\ phase' = "mounted"
       /\ (Drawn("text: Error rendering chart") /\ last'.redrew
           /\ ~Short(data') /\ dateExtent(data'.pts).defined
           /\ width' > 0 /\ height' > 0) =>
             /\ last'.outcome = "chart"
             /\ dom' = renderChart(data', config', width', height').dom
             /\ \A i \in 1..Len(dom') : dom'[i] # ErrorText]_vars

\* C8's case: a chart drawn by the update that followed a failed draw.
C8_Witness ==
    /\ last.redrew
    /\ last.recovered
    /\ last.outcome = "chart"
    /\ dom = ChartElements

\* C9: after an update whose draw threw, the error placeholder is all that
\* is drawn.
C9_FailedDrawLeavesOnlyPlaceholder ==
    last.outcome = "error" => dom = << ErrorText >>

\* C10: an update run right after an update with the same data, config,
\* width and height leaves the drawn elements and the scales as they were,
\* and no more elements than there were.
C10_UpdateIdempotent ==
    [][(last.redrew /\ last'.redrew
        /\ data' = data /\ config' = config
        /\ width' = width /\ height' = height) =>
          /\ dom' = dom
          /\ Len(dom') <= Len(dom)
          /\ interactive' = interactive]_vars

\* C10's case: a chart redrawn by a second update with the same inputs.
C10_Witness ==
    /\ last.redrew
    /\ last.repeat
    /\ last.outcome = "chart"

\* C11: on a dataset of 2 or more points sorted ascending by date, the
\* lookup chooses, for a query date strictly between the dates of two
\* consecutive points, the one of the two at the smaller distance and the
\* earlier one at equal distance; for a query date before the first point
\* the first point, and for one after the last point the last point.
C11_NearestPoint ==
    (probe.fn = "nearestPoint" /\ probe.out # << >>) =>
        LET pts == probe.in.pts
            xn  == probe.in.xn
            xd  == probe.in.xd
            n   == Len(pts)
            got == probe.out[1]
        IN  /\ \A i \in 1..(n - 1) :
                  (pts[i].date.t * xd < xn /\ xn < pts[i + 1].date.t * xd) =>
                      got = IF xn - pts[i].date.t * xd <= pts[i + 1].date.t * xd - xn
                            THEN << pts[i] >>
                            ELSE << pts[i + 1] >>
            /\ xn < pts[1].date.t * xd => got = << pts[1] >>
            /\ xn > pts[n].date.t * xd => got = << pts[n] >>

\* C11's case: a query strictly between two points, nearer to the later one,
\* which the lookup has chosen.
C11_Witness ==
    /\ probe.fn = "nearestPoint" /\ probe.out # << >>
    /\ \E i \in 1..(Len(probe.in.pts) - 1) :
          /\ probe.in.pts[i].date.t * probe.in.xd < probe.in.xn
          /\ probe.in.xn < probe.in.pts[i + 1].date.t * probe.in.xd
          /\ probe.in.xn - probe.in.pts[i].date.t * probe.in.xd
                > probe.in.pts[i + 1].date.t * probe.in.xd - probe.in.xn
          /\ probe.out[1] = << probe.in.pts[i + 1] >>

\* C12: after a pointer-move the tooltip is right of the cursor (not on the
\* left) if the chosen point's x is strictly left of the mid-width, and left
\* of the cursor otherwise, the point's x at mid-width included.
C12_TooltipLeftFromMidWidth ==
    last.op = "move" =>
        (tooltipOnLeft <=> ~RatLess(interactive[1].line.x, Rat(width, 2)))

\* C13: the tooltip date is the hovered point's date in the config's
\* tooltipDateFormat when it has one and in its dateFormat otherwise, and
\* empty when no point is hovered.
C13_TooltipDateFormat ==
    /\ hoveredData = << >> => tooltipDate = << >>
    /\ hoveredData # << >> =>
          tooltipDate =
              timeFormat(IF config.tooltipDateFormat # << >>
                         THEN config.tooltipDateFormat[1]
                         ELSE config.dateFormat,
                         hoveredData[1].date)

C15_NoCrosshairWhenSwitchedOff ==
    (interactive # << >> /\ interactive[1].config.showCrosshair = << FALSE >>)
        => interactive[1].line.opacity = 0

\* The span in days of a tick-planner probe and the most ticks its width
\* leaves room for: 2, or the number of whole spacings of 80 pixels if more.
ProbeDays == probe.in.pts[2].date.t - probe.in.pts[1].date.t

ProbeMaxTicks ==
    CHOOSE m \in 2..(probe.in.w + 2) :
        \/ m = 2 /\ probe.in.w < 80 * 3
        \/ m > 2 /\ 80 * m <= probe.in.w /\ probe.in.w < 80 * (m + 1)

\* Entry i of the table is the one the planner returned.
Returned(i) ==
    /\ intervals(ProbeDays)[i].interval = probe.out[1].interval
    /\ intervals(ProbeDays)[i].format = probe.out[1].format

\* Entry i's threshold is at least the span, and its estimated tick count
\* at most m.
ThresholdCovers(i) ==
    \/ intervals(ProbeDays)[i].threshold = << >>
    \/ ProbeDays <= intervals(ProbeDays)[i].threshold[1]

CountWithin(i, m) ==
    intervals(ProbeDays)[i].ticksNum <= m * intervals(ProbeDays)[i].ticksDen

\* C16: with max ticks = max(2, floor(width / 80)), the planner returns the
\* first of the 12 entries of the table whose threshold is >= the span in
\* days and whose estimated tick count is <= max ticks, and the last
\* (10-year) entry if there is none.
C16_TickPlannerSelection ==
    (probe.fn = "createResponsiveXAxis" /\ probe.out # << >>) =>
        /\ Len(intervals(ProbeDays)) = 12
        /\ \/ \E i \in 1..12 :
                 /\ ThresholdCovers(i) /\ CountWithin(i, ProbeMaxTicks)
                 /\ \A j \in 1..(i - 1) :
                       ~(ThresholdCovers(j) /\ CountWithin(j, ProbeMaxTicks))
                 /\ Returned(i)
           \/ /\ \A i \in 1..12 :
                    ~(ThresholdCovers(i) /\ CountWithin(i, ProbeMaxTicks))
              /\ Returned(12)
              /\ probe.out[1].interval = "timeYear.every(10)"

\* C16's case: a span of 12 days in a plot with room for 2 ticks, for which
\* the first entry whose threshold covers the span has too many ticks.
C16_Witness ==
    /\ probe.fn = "createResponsiveXAxis" /\ probe.out # << >>
    /\ ProbeDays = 12
    /\ ProbeMaxTicks = 2
    /\ probe.out[1].interval = "timeWeek.every(1)"

\* C17 as stated: for a span of 10 days at a width of 800 pixels (max ticks
\* 10) the planner returns an entry whose estimated tick count is <= 10 and
\* before which the table has no entry with an estimated tick count <= 10.
C17_FinestWithinTenTicks ==
    (probe.fn = "createResponsiveXAxis" /\ probe.out # << >>
     /\ ProbeDays = 10 /\ probe.in.w = 800) =>
        /\ ProbeMaxTicks = 10
        /\ \E i \in 1..12 :
              /\ Returned(i)
              /\ CountWithin(i, 10)
              /\ \A j \in 1..(i - 1) : ~CountWithin(j, 10)

\* C17 as amended: ... before which the table has no entry with a threshold
\* of 10 days or more and an estimated tick count <= 10.
C17_FinestEligibleWithinTenTicks ==
    (probe.fn = "createResponsiveXAxis" /\ probe.out # << >>
     /\ ProbeDays = 10 /\ probe.in.w = 800) =>
        /\ ProbeMaxTicks = 10
        /\ \E i \in 1..12 :
              /\ Returned(i)
              /\ CountWithin(i, 10)
              /\ ThresholdCovers(i)
              /\ \A j \in 1..(i - 1) : ~(ThresholdCovers(j) /\ CountWithin(j, 10))

\* C17's case: the plan for 10 days at 800 pixels, which is a tick every
\* 2 days.
C17_Witness ==
    /\ probe.fn = "createResponsiveXAxis" /\ probe.out # << >>
    /\ ProbeDays = 10 /\ probe.in.w = 800
    /\ probe.out[1].interval = "timeDay.every(2)"

\* C18: for every span and width the entry the planner returns has an
\* estimated tick count <= max ticks, also when it is the fallback.
C18_PlanWithinMaxTicks ==
    (probe.fn = "createResponsiveXAxis" /\ probe.out # << >>) =>
        \E i \in 1..12 : Returned(i) /\ CountWithin(i, ProbeMaxTicks)

\* The values of the configured series in the points of a scales probe,
\* the least and the greatest of them, and the vertical domain returned.
ProbeValues ==
    {probe.in.pts[i][probe.in.c.series[k].key] :
        i \in 1..Len(probe.in.pts), k \in 1..Len(probe.in.c.series)}

ProbeLeast == CHOOSE v \in ProbeValues : \A u \in ProbeValues : v <= u

ProbeGreatest == CHOOSE v \in ProbeValues : \A u \in ProbeValues : v >= u

\* The floor (in twentieths) of the claim for autoMinY on and a positive
\* minimum: p = max(0, min - 10% of (max - min)), rounded down to a multiple
\* of 10^floor(log10 p) if p > 0.
IsNiceFloor(f20) ==
    LET d20 == 20 * ProbeLeast - 2 * (ProbeGreatest - ProbeLeast)
        p20 == IF d20 > 0 THEN d20 ELSE 0
    IN  IF p20 = 0 THEN f20 = 0
        ELSE \E e \in 0..8 :
                LET m20 == 2 * 10^e
                IN  /\ m20 <= p20 /\ p20 < 10 * m20
                    /\ f20 % m20 = 0
                    /\ f20 <= p20 /\ p20 < f20 + m20

FloorAsRuled(f20) ==
    IF probe.in.c.autoMinY = << TRUE >> /\ ProbeLeast > 0
    THEN IsNiceFloor(f20)
    ELSE f20 = 0

\* C19 as stated: the floor of the vertical domain is 0 when autoMinY is off
\* or the least value is <= 0, and the padded floor rounded down to its
\* power of ten otherwise; in every case it is >= 0 and <= the least value.
C19_AutoMinFloor ==
    (probe.fn = "scales" /\ probe.out # << >>) =>
        /\ FloorAsRuled(probe.out[1].yDomain20[1])
        /\ probe.out[1].yDomain20[1] >= 0
        /\ probe.out[1].yDomain20[1] <= 20 * ProbeLeast

\* C19 as amended: ... it is >= 0 in every case, and <= the least value
\* when that is not negative.
C19_AutoMinFloorIfNotNegative ==
    (probe.fn = "scales" /\ probe.out # << >>) =>
        /\ FloorAsRuled(probe.out[1].yDomain20[1])
        /\ probe.out[1].yDomain20[1] >= 0
        /\ ProbeLeast >= 0 => probe.out[1].yDomain20[1] <= 20 * ProbeLeast

\* C19's case: autoMinY on, values from 270,000 to 300,000: the padded
\* floor 267,000 is rounded down to 200,000.
C19_Witness ==
    /\ probe.fn = "scales" /\ probe.out # << >>
    /\ probe.in.c.autoMinY = << TRUE >>
    /\ ProbeLeast = 270000 /\ ProbeGreatest = 300000
    /\ probe.out[1].yDomain20[1] = 20 * 200000

\* C20: for a dataset of 2 or more points sorted ascending by date, the
\* horizontal domain is (least date, greatest date), which are the first
\* and the last point's, mapped onto [0, width]; the upper bound of the
\* vertical domain is 1.05 times the greatest value of the configured
\* series, and its lower bound is 0 when autoMinY is off.
C20_ScaleDomains ==
    (probe.fn = "scales" /\ probe.out # << >>) =>
        LET pts == probe.in.pts
            n   == Len(pts)
            o   == probe.out[1]
        IN  /\ o.xDomain = << pts[1].date.t, pts[n].date.t >>
            /\ \A i \in 1..n :
                  o.xDomain[1] <= pts[i].date.t /\ pts[i].date.t <= o.xDomain[2]
            /\ o.xRange = << 0, probe.in.w >>
            /\ pts[1].date.t < pts[n].date.t =>
                  /\ xScale(pts, probe.in.w, pts[1].date) = RatInt(0)
                  /\ xScale(pts, probe.in.w, pts[n].date) = RatInt(probe.in.w)
            /\ o.yDomain20[2] = 21 * ProbeGreatest
            /\ probe.in.c.autoMinY # << TRUE >> => o.yDomain20[1] = 0

\* C20's case: the scales for three points of different dates and two
\* series, autoMinY unset.
C20_Witness ==
    /\ probe.fn = "scales" /\ probe.out # << >>
    /\ Len(probe.in.pts) = 3
    /\ probe.in.pts[1].date.t < probe.in.pts[2].date.t
    /\ probe.in.pts[2].date.t < probe.in.pts[3].date.t
    /\ probe.in.c = dualSeriesConfig
    /\ probe.out[1].yDomain20[2] > 0

\* a is b without some of its elements, in b's order.
RECURSIVE IsSubsequence(_, _)
IsSubsequence(a, b) ==
    IF a = << >> THEN TRUE
    ELSE IF b = << >> THEN FALSE
    ELSE IF Head(a) = Head(b) THEN IsSubsequence(Tail(a), Tail(b))
    ELSE IsSubsequence(a, Tail(b))

\* got is exactly the points of pts dated on day c or later, in pts' order.
IsPointsFrom(got, pts, c) ==
    /\ IsSubsequence(got, pts)
    /\ Len(got) = Cardinality({i \in 1..Len(pts) : pts[i].date.t >= c})
    /\ \A i \in 1..Len(got) : got[i].date.t >= c

\* The year, month and day of the day a range is selected on.
ProbeYear == getFullYear(probe.in.now)

ProbeMonth == getMonth(probe.in.now)

ProbeDay == getDate(probe.in.now)

\* C21 as stated: the cutoff of 2Y / 1Y is the day of today's month and day
\* 2 / 1 years earlier, that of YTD January 1 of this year, and the result
\* is exactly the points dated at the cutoff or later, in their order; ALL
\* returns the input.
C21_RangeFilter ==
    (probe.fn = "filterDataByRange" /\ probe.out # << >>) =>
        LET r   == probe.out[1].range
            got == probe.out[1].data
            n   == IF r = "2Y" THEN 2 ELSE 1
        IN  /\ r = "ALL" => got = probe.in.pts
            /\ r = "YTD" =>
                  IsPointsFrom(got, probe.in.pts, newDate(ProbeYear, 0, 1).t)
            /\ r \in {"2Y", "1Y"} =>
                  /\ ProbeDay <= daysInMonth(ProbeYear - n, ProbeMonth)
                  /\ IsPointsFrom(got, probe.in.pts,
                                  newDate(ProbeYear - n, ProbeMonth, ProbeDay).t)

\* C21 as amended: ... and March 1 of that earlier year when today is
\* February 29 and the earlier year has no February 29.
C21_RangeFilterLeapDay ==
    (probe.fn = "filterDataByRange" /\ probe.out # << >>) =>
        LET r   == probe.out[1].range
            got == probe.out[1].data
            n   == IF r = "2Y" THEN 2 ELSE 1
        IN  /\ r = "ALL" => got = probe.in.pts
            /\ r = "YTD" =>
                  IsPointsFrom(got, probe.in.pts, newDate(ProbeYear, 0, 1).t)
            /\ r \in {"2Y", "1Y"} =>
                  IF ProbeDay <= daysInMonth(ProbeYear - n, ProbeMonth)
                  THEN IsPointsFrom(got, probe.in.pts,
                                    newDate(ProbeYear - n, ProbeMonth, ProbeDay).t)
                  ELSE /\ ProbeMonth = 1 /\ ProbeDay = 29
                       /\ IsPointsFrom(got, probe.in.pts,
                                       newDate(ProbeYear - n, 2, 1).t)

\* C21's case: 1Y selected on a February 29, on data with points before and
\* after the cutoff.
C21_Witness ==
    /\ probe.fn = "filterDataByRange" /\ probe.out # << >>
    /\ probe.out[1].range = "1Y"
    /\ ProbeMonth = 1 /\ ProbeDay = 29
    /\ 0 < Len(probe.out[1].data)
    /\ Len(probe.out[1].data) < Len(probe.in.pts)

\* C22: a missing or non-numeric value of a configured series key counts as
\* zero wherever the engine reads it: in the vertical extent, in the hover
\* markers (as in the area and line geometry, which use the same getValue
\* and yScale) and in the tooltip's value, which is then the text of zero.
C22_MissingValueIsZero ==
    (last.op = "move" /\ hoveredData # << >>) =>
        LET cl == interactive[1]
            d  == hoveredData[1]
        IN  \A i \in 1..Len(cl.config.series) :
                cl.config.series[i].key \notin DOMAIN d =>
                    /\ yMin(cl.data.pts, cl.config) <= 0
                    /\ yMax(cl.data.pts, cl.config) >= 0
                    /\ cl.circles[i].cy = yScale(cl.data.pts, cl.config, cl.height, 0)
                    /\ getSeriesValue(cl.config.series[i].key)
                          = formatValue(config.yAxisFormat, 0)

\* C23: no data or config change draws before mount; mount measures the
\* container and draws once, with the data and config of that moment, and
\* happens once; a drawing surface exists exactly while the instance is
\* mounted (and not torn down).
C23_Lifecycle ==
    [][/\ (svg' # << >>) <=> (phase' = "mounted")
       /\ phase' # "mounted" => (dom' = << >> /\ interactive' = << >>)
       /\ (phase \in {"constructed", "stable"} /\ last'.op \in {"data", "config"}) =>
             (~last'.redrew /\ UNCHANGED drawVars)
       /\ last'.op = "mount" =>
             /\ phase = "stable" /\ phase' = "mounted"
             /\ svg = << >> /\ dom = << >>
             /\ last.op # "mount"
             /\ UNCHANGED << data, config, rect >>
             /\ width' = measure(config, rect).width
             /\ height' = measure(config, rect).height
             /\ last'.redrew /\ ~last'.repeat
             /\ dom' = updateChart(<< >>, data, config, width', height').dom
       /\ phase \in {"mounted", "destroyed"} =>
             phase' \in {"mounted", "destroyed"}]_vars

\* C23's case: the chart drawn by mount after a data change before mount.
C23_Witness ==
    /\ last.op = "mount"
    /\ last.outcome = "chart"
    /\ svg # << >>
    /\ Drawn("overlay")

\* The places in the drawing of the elements of a tag and series index.
Places(tag, i) == {k \in 1..Len(dom) : dom[k] = El(tag, i)}

Place(tag, i) == CHOOSE k \in Places(tag, i) : TRUE

\* C24: in the drawing of a successful redraw, the grid lines come before
\* any series geometry; each configured series has, in declaration order,
\* exactly one area directly followed by exactly one line; the axes come
\* after all series; then the hover line, one marker per series and, last,
\* the pointer overlay.
C24_DrawOrder ==
    (last.redrew /\ last.outcome = "chart") =>
        LET n == Len(config.series)
        IN  /\ Cardinality(Places("grid-lines", 0)) = 1
            /\ Cardinality({k \in 1..Len(dom) : dom[k].tag = "area"}) = n
            /\ Cardinality({k \in 1..Len(dom) : dom[k].tag = "line"}) = n
            /\ Cardinality({k \in 1..Len(dom) : dom[k].tag = "hover-circle"}) = n
            /\ \A i \in 0..(n - 1) :
                  /\ Cardinality(Places("area", i)) = 1
                  /\ Cardinality(Places("line", i)) = 1
                  /\ Cardinality(Places("hover-circle", i)) = 1
                  /\ Place("grid-lines", 0) < Place("area", i)
                  /\ Place("line", i) = Place("area", i) + 1
                  /\ i > 0 => Place("line", i - 1) < Place("area", i)
                  /\ Place("line", i) < Place("x-axis", 0)
                  /\ Place("line", i) < Place("y-axis", 0)
                  /\ Place("hover-line", 0) < Place("hover-circle", i)
                  /\ Place("hover-circle", i) < Place("overlay", 0)
            /\ Cardinality(Places("x-axis", 0)) = 1
            /\ Cardinality(Places("y-axis", 0)) = 1
            /\ Cardinality(Places("hover-line", 0)) = 1
            /\ Place("x-axis", 0) < Place("hover-line", 0)
            /\ Place("y-axis", 0) < Place("hover-line", 0)
            /\ Places("overlay", 0) = {Len(dom)}

\* C24's case: a successful redraw of a chart of two series.
C24_Witness ==
    /\ last.redrew /\ last.outcome = "chart"
    /\ Len(config.series) = 2
    /\ Place("area", 1) > Place("line", 0)

\* C25: after a pointer-move every series' marker is at (x of the chosen
\* point, pixel-y of the series' value), and the tooltip position is
\* (that x + left margin + container left, the least of the markers'
\* pixel-y + top margin + container top).
C25_TooltipAnchor ==
    (last.op = "move" /\ hoveredData # << >>) =>
        LET cl == interactive[1]
            d  == hoveredData[1]
            x  == xScale(cl.data.pts, cl.width, d.date)
            Y  == {cl.circles[i].cy : i \in 1..Len(cl.circles)}
        IN  /\ Len(cl.circles) = Len(cl.config.series)
            /\ \A i \in 1..Len(cl.circles) :
                  /\ cl.circles[i].cx = x
                  /\ cl.circles[i].cy =
                        yScale(cl.data.pts, cl.config, cl.height,
                               getValue(d, cl.config.series[i].key))
            /\ \E y \in Y :
                  /\ \A z \in Y : ~RatLess(z, y)
                  /\ tooltipPosition =
                        [x |-> Rat(x.n + (cl.config.margin.left + rect.left) * x.d, x.d),
                         y |-> Rat(y.n + (cl.config.margin.top + rect.top) * y.d, y.d)]

\* C25's case: a pointer-move over a chart of two series whose markers are
\* at different heights.
C25_Witness ==
    /\ last.op = "move" /\ hoveredData # << >>
    /\ Len(interactive[1].circles) = 2
    /\ RatLess(interactive[1].circles[2].cy, interactive[1].circles[1].cy)
    /\ tooltipPosition.y =
          RatPlus(interactive[1].circles[2].cy,
                  interactive[1].config.margin.top + rect.top)

\* C26: the hovered point is none or a point of the dataset supplied to the
\* chart, and no point is hovered while the 'no data' placeholder is shown.
C26_HoveredPointIsInData ==
    hoveredData # << >> =>
        /\ ~data.isNull
        /\ \E i \in 1..Len(data.pts) : data.pts[i] = hoveredData[1]
        /\ ~Drawn("text: No data available")

\* The place in the table of the entry a plan names.
PlanIndex(plan) ==
    CHOOSE i \in 1..12 : intervals(0)[i].interval = plan.interval

\* C27: for a fixed span a wider plot never gets a coarser granularity (a
\* greater table index), and for a fixed width a longer span never gets a
\* finer one (a lesser table index).
C27_TickPlannerMonotone ==
    (probe.fn = "createResponsiveXAxis" /\ probe.out # << >>) =>
        /\ \A k \in 1..MaxWidthUnits, r \in {0, 1} :
              80 * k - r >= probe.in.w =>
                  PlanIndex(createResponsiveXAxis(probe.in.pts, 80 * k - r))
                      <= PlanIndex(probe.out[1])
        /\ \A span \in Spans :
              span >= ProbeDays =>
                  PlanIndex(createResponsiveXAxis(pointsAt(<< 0, span >>), probe.in.w))
                      >= PlanIndex(probe.out[1])

\* C27's case: a plan that a wider plot makes finer and a longer span
\* coarser.
C27_Witness ==
    /\ probe.fn = "createResponsiveXAxis" /\ probe.out # << >>
    /\ \E k \in 1..MaxWidthUnits :
          PlanIndex(createResponsiveXAxis(probe.in.pts, 80 * k))
              < PlanIndex(probe.out[1])
    /\ \E span \in Spans :
          PlanIndex(createResponsiveXAxis(pointsAt(<< 0, span >>), probe.in.w))
              > PlanIndex(probe.out[1])

\* C28: for every dataset and every day, the result for YTD is a
\* subsequence of the result for 1Y, that one of the result for 2Y, and that
\* one of the result for ALL, also on a February 29.
C28_RangeFilterNesting ==
    (probe.fn = "filterDataByRange" /\ probe.out # << >>) =>
        LET got == probe.out[1].data
            wider(r) == filterDataByRange(probe.in.pts, r, probe.in.now)
        IN  /\ probe.out[1].range = "YTD" => IsSubsequence(got, wider("1Y"))
            /\ probe.out[1].range = "1Y" => IsSubsequence(got, wider("2Y"))
            /\ probe.out[1].range = "2Y" => IsSubsequence(got, wider("ALL"))
            /\ probe.out[1].range \in {"YTD", "1Y"} =>
                  /\ IsSubsequence(got, wider("2Y"))
                  /\ IsSubsequence(got, wider("ALL"))
            /\ probe.out[1].range = "ALL" => got = probe.in.pts

\* C28's case: 1Y selected on a February 29, its result shorter than that
\* of 2Y and longer than that of YTD.
C28_Witness ==
    /\ probe.fn = "filterDataByRange" /\ probe.out # << >>
    /\ probe.out[1].range = "1Y"
    /\ getMonth(probe.in.now) = 1 /\ getDate(probe.in.now) = 29
    /\ Len(probe.out[1].data)
          < Len(filterDataByRange(probe.in.pts, "2Y", probe.in.now))
    /\ Len(probe.out[1].data)
          > Len(filterDataByRange(probe.in.pts, "YTD", probe.in.now))

====
